---- MODULE Spec2Model ----
(***************************************************************************)
(* HPF GOC: the stand allocator (rule matching, LRU pool rotation) and the *)
(* watcher's trigger tracking (welcome, TSAT transitions, stand @100NM),   *)
(* modelled from goc_auto.py, with the older variant goc_stand_100nm.py    *)
(* where the two differ.                                                   *)
(*                                                                         *)
(* Callsigns and callsign prefixes are sequences of one-character strings, *)
(* so that strip(), upper() and the leading alphabetic run are computed.   *)
(* Stand names, aircraft types and labels are atoms; strip().upper() on    *)
(* them is the table strip_upper below.                                    *)
(***************************************************************************)
EXTENDS Integers, Sequences, FiniteSets, TLC

VARIABLES
    pc,                  \* position of the watcher thread in its poll cycle
    clock,               \* int(time.time()), whole seconds
    online,              \* fetch_vatsim_hpf() result of this cycle, in dict order
    cdm_tables,          \* airport -> {callsign: TSAT} of this cycle
    cdm_raw,             \* airport -> what the CDM viewer answered this cycle
    changed_state_files, \* the cycle's dirty flag
    idx,                 \* index into online of the stand loop
    sent_flags,          \* in-memory flag store (keys whose value is True)
    lru_state,           \* in-memory airport -> stand -> last assigned timestamp
    disk_flags,          \* state/sent_flags.json
    disk_lru,            \* state/lru_state.json
    disk_tmp,            \* the .tmp files of the two documents, as far as written
    last,                \* (cs, apt) -> (state, tsat) of the previous observation
    welcomed,            \* callsigns welcomed by this process
    last_cdm_error,      \* airport -> last logged CDM error text
    telex,               \* hoppie_telex calls made by the latest step, in order
    pred,                \* outcome of the latest predict_stand call of the watcher
    restarts,            \* number of process restarts so far
    welcTotal,           \* callsign -> welcome telexes dispatched, over all processes
    welcProc,            \* callsign -> welcome telexes dispatched by this process
    standAtt,            \* (cs, arr) -> stand telexes dispatched so far (capped at 2)
    standOk,             \* the (cs, arr) whose stand telex was delivered
    below,               \* the (cs, arr) seen at or below TRIGGER_NM by some poll
    pubSeen,             \* (cs, apt) -> slot last read from a fetched table, this process
    program,             \* the script that runs: "goc_auto" or "goc_stand_100nm"
    calls,               \* the latest direct calls of the allocator, oldest first
    console,             \* the latest command cli_loop ran, and where the watcher stood
    log                  \* the error text and the error lines printed by the latest fetch

vars == <<pc, clock, online, cdm_tables, cdm_raw, changed_state_files, idx, sent_flags,
          lru_state, disk_flags, disk_lru, disk_tmp, last, welcomed,
          last_cdm_error, telex, pred, restarts, welcTotal, welcProc, standAtt, standOk, below,
          pubSeen, program, calls, console, log>>

-----------------------------------------------------------------------------
(* Program constants                                                       *)

AIRPORTS == <<"LEVC", "LEBL", "LEMD">>

POLL_SECONDS == 20

TRIGGER_NM == 100


None == "None"

Absent == "<absent>"

\* one round of cli_loop on a line: what it ran and how the send ended
ConsoleRound(cmd, to, message, outcome) ==
    [cmd |-> cmd, to |-> to, message |-> message, outcome |-> outcome]

\* the console has run no command yet
NoCommand == [round |-> ConsoleRound(None, <<>>, None, None), rmw |-> FALSE]

\* no fetch has failed: nothing was printed
NoLog == [vatsim |-> None, lines |-> {}]

-----------------------------------------------------------------------------
(* Bounds                                                                  *)

MaxPolls == 3

MaxRestarts == 1

MaxTs == 2

MaxCand == 3

MaxTicks == 2

StartClock == 1

MaxRules == 3

-----------------------------------------------------------------------------
(* Maps (Python dicts)                                                     *)

EmptyMap == [x \in {} |-> 0]

Put(m, k, v) == [x \in (DOMAIN m) \cup {k} |-> IF x = k THEN v ELSE m[x]]

Get(m, k, default) == IF k \in DOMAIN m THEN m[k] ELSE default

Range(s) == {s[i] : i \in DOMAIN s}

-----------------------------------------------------------------------------
(* Text                                                                    *)

Letters == {"H", "P", "F", "V", "L", "G", "h", "p", "f"}

UpperCh(c) ==
    CASE c = "h" -> "H"
      [] c = "p" -> "P"
      [] c = "f" -> "F"
      [] OTHER -> c

isalpha(c) == c \in Letters

upper(s) == [i \in 1..Len(s) |-> UpperCh(s[i])]

RECURSIVE lstrip(_)
lstrip(s) ==
    IF s # <<>> /\ Head(s) = " " THEN lstrip(Tail(s)) ELSE s

RECURSIVE rstrip(_)
rstrip(s) ==
    IF s # <<>> /\ s[Len(s)] = " " THEN rstrip(SubSeq(s, 1, Len(s) - 1)) ELSE s

strip(s) == rstrip(lstrip(s))

normalize_callsign(cs) == upper(strip(cs))

\* the leading run of alphabetic characters of s
RECURSIVE AlphaRun(_)
AlphaRun(s) ==
    IF s # <<>> /\ isalpha(Head(s)) THEN <<Head(s)>> \o AlphaRun(Tail(s)) ELSE <<>>

callsign_prefix(cs) == AlphaRun(normalize_callsign(cs))

\* goc_stand_100nm.py: the accumulator starts at "HPF", not at ""
callsign_prefix_100nm(cs) == <<"H", "P", "F">> \o AlphaRun(normalize_callsign(cs))

\* s.strip().upper() on the atoms used for stands and aircraft types
strip_upper(s) ==
    CASE s = "m1" -> "M1"
      [] s = " M2 " -> "M2"
      [] s = "a20n" -> "A20N"
      [] s = "  " -> ""
      [] OTHER -> s

\* s.strip().lower() on the atoms used for the stands type
strip_lower(s) ==
    CASE s = "Fixed " -> "fixed"
      [] s = "POOL" -> "pool"
      [] OTHER -> s

\* s.upper() on the same atoms (no strip)
upper_atom(s) ==
    CASE s = "m1" -> "M1"
      [] s = "a20n" -> "A20N"
      [] OTHER -> s

\* s.strip() on the atoms used for labels
strip_atom(s) ==
    CASE s = " T1 " -> "T1"
      [] s = "  " -> ""
      [] OTHER -> s

Truthy(s) == s \notin {Absent, "", None}

-----------------------------------------------------------------------------
(* Gate rule files gates/<ICAO>.json                                       *)

HPF == <<"H", "P", "F">>

Rule(prio, prefixes, aircraft, type, stand, cands, label, name) ==
    [priority |-> prio, callsign_prefix |-> prefixes, aircraft_icao |-> aircraft,
     type |-> type, stand |-> stand, candidates |-> cands,
     label |-> label, name |-> name]

\* the rule set of the end-to-end example: one pool rule for HPF callsigns
DocLEMD ==
    [exists |-> TRUE,
     rules |-> << Rule(10, <<HPF>>, <<>>, "pool", Absent, <<"M1", "M2">>,
                       Absent, Absent) >>]

DocLEBL ==
    [exists |-> TRUE,
     rules |-> << Rule(1, <<>>, <<>>, Absent, Absent, <<"m1", " M2 ", "  ">>,
                       Absent, "REMOTE"),
                  Rule(5, <<>>, <<"a20n">>, "Fixed ", "F1", <<>>,
                       " T1 ", Absent) >>]

\* no gates/LEVC.json: load_json returns the default {}
DocMissing == [exists |-> FALSE, rules |-> <<>>]

GATE_FILES(icao) ==
    CASE icao = "LEMD" -> DocLEMD
      [] icao = "LEBL" -> DocLEBL
      [] OTHER -> DocMissing

-----------------------------------------------------------------------------
(* Gate rule engine                                                        *)

match_rule(rule, ctx) ==
    /\ \/ rule.callsign_prefix = <<>>
       \/ ctx.prefix \in {upper(p) : p \in Range(rule.callsign_prefix)}
    /\ \/ rule.aircraft_icao = <<>>
       \/ ctx.aircraft_icao \in {upper_atom(a) : a \in Range(rule.aircraft_icao)}

\* SelectLoop with the comparison ts <= best_ts: the last of the tied wins
RECURSIVE SelectLoop_LastTie(_, _, _, _, _)
SelectLoop_LastTie(candidates, i, airport_map, best, best_ts) ==
    IF i > Len(candidates) THEN best
    ELSE LET s == strip_upper(candidates[i])
             ts == Get(airport_map, s, 0)
         IN  IF best = None \/ ts <= best_ts
             THEN SelectLoop_LastTie(candidates, i + 1, airport_map, s, ts)
             ELSE SelectLoop_LastTie(candidates, i + 1, airport_map, best, best_ts)

\* the loop of select_stand_from_pool over candidates[i..]
RECURSIVE SelectLoop(_, _, _, _, _)
SelectLoop(candidates, i, airport_map, best, best_ts) ==
    IF i > Len(candidates) THEN best
    ELSE LET s == strip_upper(candidates[i])
             ts == Get(airport_map, s, 0)
         IN  IF best = None \/ ts < best_ts
             THEN SelectLoop(candidates, i + 1, airport_map, s, ts)
             ELSE SelectLoop(candidates, i + 1, airport_map, best, best_ts)

\* returns the stand and the LRU state as the call leaves it
select_stand_from_pool(airport, candidates, lru, now) ==
    LET airport_map == Get(lru, airport, EmptyMap)
        best == SelectLoop(candidates, 1, airport_map, None, 0)
    IN  [stand |-> best, lru |-> Put(lru, airport, Put(airport_map, best, now))]

\* InsertByPriority putting a rule before the rules of its own priority
RECURSIVE InsertByPriority_Unstable(_, _)
InsertByPriority_Unstable(sorted, r) ==
    IF sorted = <<>> THEN <<r>>
    ELSE IF Head(sorted).priority > r.priority
         THEN <<Head(sorted)>> \o InsertByPriority_Unstable(Tail(sorted), r)
         ELSE <<r>> \o sorted

\* sorted(rules, key=priority, reverse=True): stable, equal keys keep their order
RECURSIVE InsertByPriority(_, _)
InsertByPriority(sorted, r) ==
    IF sorted = <<>> THEN <<r>>
    ELSE IF Head(sorted).priority >= r.priority
         THEN <<Head(sorted)>> \o InsertByPriority(Tail(sorted), r)
         ELSE <<r>> \o sorted

RECURSIVE rules_sorted(_)
rules_sorted(rules) ==
    IF rules = <<>> THEN <<>>
    ELSE InsertByPriority(rules_sorted(SubSeq(rules, 1, Len(rules) - 1)),
                          rules[Len(rules)])

NormCandidates(cands) ==
    LET kept == SelectSeq(cands, LAMBDA c : strip_upper(c) # "")
    IN  [i \in 1..Len(kept) |-> strip_upper(kept[i])]

Raised(exc, lru) ==
    [raised |-> exc, stand |-> None, label |-> None, lru |-> lru,
     kind |-> "raised", rule |-> None]

Returned(stand, label, lru, kind, rule) ==
    [raised |-> None, stand |-> stand, label |-> label, lru |-> lru,
     kind |-> kind, rule |-> rule]

\* goc_auto.py: the loop of predict_stand over rules_sorted[i..]
RECURSIVE PredictLoop(_, _, _, _, _, _)
PredictLoop(rules, i, airport, ctx, lru, now) ==
    IF i > Len(rules) THEN Returned("TBD", "APRON", lru, "fallback", None)
    ELSE
    LET rule == rules[i]
        stype == strip_lower(IF Truthy(rule.type) THEN rule.type ELSE "pool")
        label == strip_atom(IF Truthy(rule.label) THEN rule.label
                            ELSE IF Truthy(rule.name) THEN rule.name ELSE "APRON")
        s == strip_upper(IF Truthy(rule.stand) THEN rule.stand ELSE "")
        candidates == NormCandidates(rule.candidates)
    IN  IF ~match_rule(rule, ctx)
        THEN PredictLoop(rules, i + 1, airport, ctx, lru, now)
        ELSE IF stype = "fixed" /\ s # ""
        THEN Returned(s, label, lru, "fixed", rule)
        ELSE IF candidates # <<>>
        THEN LET sel == select_stand_from_pool(airport, candidates, lru, now)
             IN  Returned(sel.stand, label, sel.lru, "pool", rule)
        ELSE PredictLoop(rules, i + 1, airport, ctx, lru, now)

\* predict_stand scanning the empty rule list of a missing gate file
predict_stand_NoRaise(airport, callsign, aircraft_icao, lru, now) ==
    LET doc == GATE_FILES(airport)
        ctx == [callsign |-> normalize_callsign(callsign),
                prefix |-> callsign_prefix(callsign),
                aircraft_icao |-> strip_upper(aircraft_icao)]
    IN  PredictLoop(rules_sorted(doc.rules), 1, airport, ctx, lru, now)

\* goc_auto.py
predict_stand(airport, callsign, aircraft_icao, lru, now) ==
    LET doc == GATE_FILES(airport)
        ctx == [callsign |-> normalize_callsign(callsign),
                prefix |-> callsign_prefix(callsign),
                aircraft_icao |-> strip_upper(aircraft_icao)]
    IN  IF ~doc.exists THEN Raised("FileNotFoundError", lru)
        ELSE PredictLoop(rules_sorted(doc.rules), 1, airport, ctx, lru, now)

\* goc_stand_100nm.py: the loop of predict_stand over rules_sorted[i..]
RECURSIVE PredictLoop_100nm(_, _, _, _, _, _)
PredictLoop_100nm(rules, i, airport, ctx, lru, now) ==
    IF i > Len(rules) THEN Returned("TBD", "EST STAND", lru, "fallback", None)
    ELSE
    LET rule == rules[i]
        stype == IF rule.type # Absent THEN rule.type ELSE "pool"
        label == strip_atom(IF rule.label # Absent THEN rule.label
                            ELSE IF rule.name # Absent THEN rule.name
                            ELSE "EST STAND")
        s == strip_upper(IF Truthy(rule.stand) THEN rule.stand ELSE "")
        candidates == NormCandidates(rule.candidates)
    IN  IF ~match_rule(rule, ctx)
        THEN PredictLoop_100nm(rules, i + 1, airport, ctx, lru, now)
        ELSE IF stype = "fixed" /\ s # ""
        THEN Returned(s, label, lru, "fixed", rule)
        ELSE IF candidates = <<>>
        THEN PredictLoop_100nm(rules, i + 1, airport, ctx, lru, now)
        ELSE LET sel == select_stand_from_pool(airport, candidates, lru, now)
             IN  Returned(sel.stand, label, sel.lru, "pool", rule)

\* goc_stand_100nm.py
predict_stand_100nm(airport, callsign, aircraft_icao, lru, now) ==
    LET doc == GATE_FILES(airport)
        ctx == [callsign |-> normalize_callsign(callsign),
                prefix |-> callsign_prefix_100nm(callsign),
                aircraft_icao |-> strip_upper(aircraft_icao)]
    IN  IF ~doc.exists THEN Raised("FileNotFoundError", lru)
        ELSE PredictLoop_100nm(rules_sorted(doc.rules), 1, airport, ctx, lru, now)

-----------------------------------------------------------------------------
(* Inputs of the direct calls of the allocator                             *)

HPF100 == <<"H", "P", "F", "1", "0", "0">>

HPF200 == <<"H", "P", "F", "2", "0", "0">>

VLG12 == <<"V", "L", "G", "1", "2">>

RawStands == {"M1", "m1", " M2 ", "M3"}

Stands == {strip_upper(s) : s \in RawStands}

\* the predict_stand calls made: (airport, callsign, aircraft type)
Requests ==
    {<<"LEMD", HPF100, "B738">>, <<"LEMD", HPF200, "B738">>,
     <<"LEMD", VLG12, "B738">>, <<"LEBL", HPF100, "a20n">>,
     <<"LEBL", HPF200, "B738">>, <<"LEVC", HPF100, "B738">>}

\* the candidate sequences of at most MaxCand raw stand names, the empty one
\* included
CandidateSeqs == UNION {[1..n -> RawStands] : n \in 0..MaxCand}

\* every LRU document on the stands of one airport, stamps 0..MaxTs
LruStates ==
    {EmptyMap} \cup
    UNION {{[a \in {"LEMD"} |-> m] : m \in [D -> 0..MaxTs]} : D \in SUBSET Stands}

NoPred ==
    [raised |-> None, stand |-> None, label |-> None, kind |-> "none",
     airport |-> None, i |-> 0]

\* the watcher is not running: its variables stay at their start values
WatcherIdle ==
    /\ pc = "idle"
    /\ online = <<>>
    /\ cdm_tables = EmptyMap
    /\ cdm_raw = EmptyMap
    /\ changed_state_files = FALSE
    /\ idx = 0
    /\ sent_flags = {}
    /\ disk_flags = {}
    /\ disk_lru = EmptyMap
    /\ disk_tmp = EmptyMap
    /\ last = EmptyMap
    /\ welcomed = {}
    /\ last_cdm_error = EmptyMap
    /\ telex = <<>>
    /\ pred = NoPred
    /\ restarts = 0
    /\ welcTotal = EmptyMap
    /\ welcProc = EmptyMap
    /\ standAtt = EmptyMap
    /\ standOk = {}
    /\ below = {}
    /\ pubSeen = EmptyMap

watcherVars == <<pc, online, cdm_tables, cdm_raw, changed_state_files, idx, sent_flags,
                 disk_flags, disk_lru, disk_tmp, last, welcomed, last_cdm_error, telex,
                 pred, restarts, welcTotal, welcProc, standAtt, standOk, below,
                 pubSeen>>

-----------------------------------------------------------------------------
(* SpecSelect: select_stand_from_pool applied to every candidate sequence  *)
(* and every LRU document within the bounds                                *)

InitSelect ==
    /\ WatcherIdle
    /\ program = "goc_auto"
    /\ clock = MaxTs
    /\ lru_state \in LruStates
    /\ calls = <<>>
    /\ console = NoCommand
    /\ log = NoLog

SelectCall ==
    \E candidates \in CandidateSeqs :
        LET sel == select_stand_from_pool("LEMD", candidates, lru_state, clock)
        IN  /\ calls' = << [fn |-> "select", airport |-> "LEMD",
                            candidates |-> candidates,
                            before |-> Get(lru_state, "LEMD", EmptyMap),
                            now |-> clock, raised |-> None,
                            stand |-> sel.stand] >>
            /\ lru_state' = sel.lru
            /\ UNCHANGED <<clock, program, console, log, watcherVars>>

NextSelect == SelectCall

SpecSelect == InitSelect /\ [][NextSelect]_vars

-----------------------------------------------------------------------------
(* SpecAssign: sequences of predict_stand calls of one process, from the   *)
(* empty LRU document, with the clock of int(time.time())                  *)

InitAssign ==
    /\ WatcherIdle
    /\ program \in {"goc_auto", "goc_stand_100nm"}
    /\ clock = StartClock
    /\ lru_state = EmptyMap
    /\ calls = <<>>
    /\ console = NoCommand
    /\ log = NoLog

LastTwo(s) == IF Len(s) > 2 THEN SubSeq(s, Len(s) - 1, Len(s)) ELSE s

PredictCall ==
    \E req \in Requests :
        LET airport == req[1]
            callsign == req[2]
            aircraft == req[3]
            r == IF program = "goc_auto"
                 THEN predict_stand(airport, callsign, aircraft, lru_state, clock)
                 ELSE predict_stand_100nm(airport, callsign, aircraft, lru_state, clock)
        IN  /\ calls' = LastTwo(Append(calls,
                           [fn |-> "predict", airport |-> airport,
                            callsign |-> callsign, aircraft |-> aircraft,
                            before |-> Get(lru_state, airport, EmptyMap),
                            now |-> clock, raised |-> r.raised, stand |-> r.stand,
                            label |-> r.label, kind |-> r.kind, rule |-> r.rule]))
            /\ lru_state' = r.lru
            /\ UNCHANGED <<clock, program, console, log, watcherVars>>

\* a second of wall-clock time passes between two calls
Tick ==
    /\ clock < StartClock + MaxTicks
    /\ clock' = clock + 1
    /\ UNCHANGED <<lru_state, calls, program, console, log, watcherVars>>

NextAssign == PredictCall \/ Tick

SpecAssign == InitAssign /\ [][NextAssign]_vars

-----------------------------------------------------------------------------
(* SpecRules: one predict_stand call of either script on a gate file drawn *)
(* from the rule sets of at most MaxRules rules built from RuleShapes      *)

\* what a rule says besides its priority and its name:
\* <<callsign_prefix, aircraft_icao, stands.type, stands.stand, stands.candidates>>
RuleShapes ==
    {<< <<>>, <<>>, "fixed", "F1", <<>> >>,
     << <<>>, <<>>, "fixed", "  ", <<>> >>,
     << <<>>, <<>>, "fixed", "  ", <<"M1">> >>,
     << <<>>, <<>>, Absent, Absent, <<"M1", " M2 ">> >>,
     << <<>>, <<>>, "pool", Absent, <<"  ">> >>,
     << <<HPF>>, <<>>, "fixed", "F2", <<>> >>,
     << <<>>, <<"a20n">>, "fixed", "F3", <<>> >>}

RulePriorities == {5, 10}

RuleNames == <<"R1", "R2", "R3", "R4">>

\* the "rules" array of a gate file: the j-th rule is named RuleNames[j] and
\* has no label
RuleSets ==
    UNION {{[j \in 1..n |-> Rule(pr[j], sh[j][1], sh[j][2], sh[j][3], sh[j][4],
                                 sh[j][5], Absent, RuleNames[j])] :
               pr \in [1..n -> RulePriorities], sh \in [1..n -> RuleShapes]} :
           n \in 0..MaxRules}

RuleRequests == {<<HPF100, "B738">>, <<HPF100, "a20n">>}

\* predict_stand of the running script once load_gate_rules has returned doc
predict_stand_doc(doc, airport, callsign, aircraft_icao, lru, now) ==
    LET ctx == [callsign |-> normalize_callsign(callsign),
                prefix |-> IF program = "goc_auto" THEN callsign_prefix(callsign)
                           ELSE callsign_prefix_100nm(callsign),
                aircraft_icao |-> strip_upper(aircraft_icao)]
    IN  IF ~doc.exists THEN Raised("FileNotFoundError", lru)
        ELSE IF program = "goc_auto"
        THEN PredictLoop(rules_sorted(doc.rules), 1, airport, ctx, lru, now)
        ELSE PredictLoop_100nm(rules_sorted(doc.rules), 1, airport, ctx, lru, now)

InitRules ==
    /\ WatcherIdle
    /\ program \in {"goc_auto", "goc_stand_100nm"}
    /\ clock = StartClock
    /\ lru_state = EmptyMap
    /\ calls = <<>>
    /\ console = NoCommand
    /\ log = NoLog

RulesCall ==
    /\ calls = <<>>
    /\ \E rules \in RuleSets, req \in RuleRequests :
        LET r == predict_stand_doc([exists |-> TRUE, rules |-> rules], "LEMD",
                                   req[1], req[2], lru_state, clock)
        IN  /\ calls' = << [fn |-> "rules", airport |-> "LEMD", rules |-> rules,
                            callsign |-> req[1], aircraft |-> req[2],
                            before |-> Get(lru_state, "LEMD", EmptyMap),
                            now |-> clock, raised |-> r.raised, stand |-> r.stand,
                            label |-> r.label, kind |-> r.kind, rule |-> r.rule] >>
            /\ lru_state' = r.lru
    /\ UNCHANGED <<clock, program, console, log, watcherVars>>

NextRules == RulesCall

SpecRules == InitRules /\ [][NextRules]_vars

-----------------------------------------------------------------------------
(* SpecMatch: match_rule of either script applied to one rule and the      *)
(* context predict_stand builds for one flight                             *)

MatchPrefixes ==
    {<<>>, <<HPF>>, << <<"h", "p", "f">> >>, << <<"V", "L", "G">> >>,
     << <<"V", "L", "G">>, HPF >>}

MatchAircraft == {<<>>, <<"a20n">>, <<"B738">>, <<"B738", "A20N">>}

\* the "match" object of a rule; match_rule reads nothing else
MatchRules ==
    {Rule(10, p, a, "pool", Absent, <<"M1">>, Absent, "R1") :
        p \in MatchPrefixes, a \in MatchAircraft}

\* the flights: (callsign, aircraft type) as the feed gives them
MatchRequests ==
    {<<HPF100, "B738">>, <<HPF100, "a20n">>, <<VLG12, "A20N">>,
     << <<"h", "p", "f", "1", "0", "0">>, "B738" >>}

\* the ctx dict of predict_stand of the running script
ctx_of(callsign, aircraft_icao) ==
    [callsign |-> normalize_callsign(callsign),
     prefix |-> IF program = "goc_auto" THEN callsign_prefix(callsign)
                ELSE callsign_prefix_100nm(callsign),
     aircraft_icao |-> strip_upper(aircraft_icao)]

InitMatch ==
    /\ WatcherIdle
    /\ program \in {"goc_auto", "goc_stand_100nm"}
    /\ clock = StartClock
    /\ lru_state \in {EmptyMap, [a \in {"LEMD"} |-> [s \in {"M1"} |-> 1]]}
    /\ calls = <<>>
    /\ console = NoCommand
    /\ log = NoLog

MatchCall ==
    /\ \E rule \in MatchRules, req \in MatchRequests :
        calls' = << [fn |-> "match", rule |-> rule, callsign |-> req[1],
                     aircraft |-> req[2], lru |-> lru_state,
                     result |-> match_rule(rule, ctx_of(req[1], req[2]))] >>
    /\ UNCHANGED <<lru_state, clock, program, console, log, watcherVars>>

NextMatch == MatchCall

SpecMatch == InitMatch /\ [][NextMatch]_vars

-----------------------------------------------------------------------------
(* The watcher of goc_auto.py: inputs of one poll                          *)

\* one entry of fetch_vatsim_hpf's result; latlon is None when latitude or
\* longitude is None, and dist is haversine_nm of the position to the
\* arrival airport, in whole NM
Flight(cs, dep, arr, latlon, dist, aircraft) ==
    [cs |-> cs, dep |-> dep, arr |-> arr, latlon |-> latlon, dist |-> dist,
     aircraft_icao |-> aircraft]

InfosA ==
    {Flight(HPF100, "LEBL", "LEMD", "set", 150, "B738"),
     Flight(HPF100, "LEBL", "LEMD", "set", 100, "B738"),
     Flight(HPF100, "LEBL", "LEVC", "set", 80, "B738"),
     Flight(HPF100, "EGLL", "LEMD", None, 0, "B738")}

InfosB == {Flight(HPF200, "EGLL", "LEMD", "set", 80, "B738")}

\* the snapshots: each flight online or not, in the order of the feed
Snapshots ==
    {<<>>} \cup {<<a>> : a \in InfosA} \cup {<<b>> : b \in InfosB}
           \cup {<<a, b>> : a \in InfosA, b \in InfosB}

\* the snapshots of one departing flight, far from or near its arrival
SnapshotsDep ==
    {<<>>, <<Flight(HPF100, "LEBL", "LEMD", "set", 150, "B738")>>,
     <<Flight(HPF100, "LEBL", "LEMD", "set", 100, "B738")>>}

WatchKeys == {<<HPF100, "LEMD">>, <<HPF100, "LEVC">>, <<HPF200, "LEMD">>}

WatchCallsigns == {HPF100, HPF200}

\* TSAT cells of the CDM viewer table, as scraped
RawTsats == {"1230", "1245", "-", "----"}

CdmOk(rows) == [ok |-> TRUE, rows |-> rows, msg |-> None]

CdmFail(msg) == [ok |-> FALSE, rows |-> EmptyMap, msg |-> msg]

\* what the CDM viewer answers for one airport: only LEBL lists HPF100
CdmResponses(apt) ==
    IF apt = "LEBL"
    THEN {CdmFail("timeout"), CdmOk(EmptyMap)}
         \cup {CdmOk([c \in {HPF100} |-> t]) : t \in RawTsats}
    ELSE {CdmOk(EmptyMap)}

CdmInputs == {r \in [Range(AIRPORTS) -> UNION {CdmResponses(a) : a \in Range(AIRPORTS)}] :
                \A a \in Range(AIRPORTS) : r[a] \in CdmResponses(a)}

\* every fetch succeeds and LEBL lists HPF100 with one published time
CdmQuiet ==
    {[a \in Range(AIRPORTS) |->
        IF a = "LEBL" THEN CdmOk([c \in {HPF100} |-> "1230"]) ELSE CdmOk(EmptyMap)]}

\* the cells fetch_cdm_airport skips (its em dash is left out of the model)
Placeholders == {"", "-", "N/A", "NA"}

\* the table fetch_cdm_airport returns for the scraped rows
fetch_cdm_airport(rows) ==
    LET keep == {c \in DOMAIN rows : rows[c] \notin Placeholders}
    IN  [c \in keep |-> rows[c]]

tsat_state_for(cs, apt, tables) ==
    LET table == Get(tables, apt, EmptyMap)
    IN  IF cs \notin DOMAIN table THEN <<"IN_CDM_BUT_NO_TSAT", None>>
        ELSE <<"TSAT_ASSIGNED", table[cs]>>

\* last.get(key) when the key is absent
NoTuple == <<None, None>>

hoppie_telex(to, kind, airport, value, prev, ok) ==
    [to |-> to, kind |-> kind, airport |-> airport, value |-> value,
     prev |-> prev, ok |-> ok]

Bump(m, k) == Put(m, k, IF Get(m, k, 0) >= 2 THEN 2 ELSE Get(m, k, 0) + 1)

Polls == (clock - StartClock) \div POLL_SECONDS

-----------------------------------------------------------------------------
(* The watcher: the loops of one poll cycle                                *)

\* FIRST ONLINE WELCOME, over flights[i..]; oks[i] is whether the send to
\* flights[i] succeeds
RECURSIVE WelcomeLoop_NoCheck(_, _, _, _, _)
WelcomeLoop_NoCheck(flights, i, w, out, oks) ==
    IF i > Len(flights) THEN [welcomed |-> w, telex |-> out]
    ELSE LET f == flights[i]
         IN  IF f.dep \notin Range(AIRPORTS)
             THEN WelcomeLoop_NoCheck(flights, i + 1, w, out, oks)
             ELSE WelcomeLoop_NoCheck(flights, i + 1, w \cup {f.cs},
                      Append(out, hoppie_telex(f.cs, "welcome", f.dep, None,
                                               NoTuple, oks[i])), oks)

RECURSIVE WelcomeLoop(_, _, _, _, _)
WelcomeLoop(flights, i, w, out, oks) ==
    IF i > Len(flights) THEN [welcomed |-> w, telex |-> out]
    ELSE LET f == flights[i]
         IN  IF f.dep \notin Range(AIRPORTS) \/ f.cs \in w
             THEN WelcomeLoop(flights, i + 1, w, out, oks)
             ELSE WelcomeLoop(flights, i + 1, w \cup {f.cs},
                      Append(out, hoppie_telex(f.cs, "welcome", f.dep, None,
                                               NoTuple, oks[i])), oks)

\* TsatLoop comparing the state kind alone
RECURSIVE TsatLoop_KindOnly(_, _, _, _, _, _)
TsatLoop_KindOnly(flights, i, tables, lst, out, oks) ==
    IF i > Len(flights) THEN [last |-> lst, telex |-> out]
    ELSE LET f == flights[i]
             key == <<f.cs, f.dep>>
             prev == Get(lst, key, NoTuple)
             curr == tsat_state_for(f.cs, f.dep, tables)
         IN  IF f.dep \notin Range(AIRPORTS) \/ prev[1] = curr[1]
             THEN TsatLoop_KindOnly(flights, i + 1, tables, lst, out, oks)
             ELSE TsatLoop_KindOnly(flights, i + 1, tables, Put(lst, key, curr),
                      IF curr[1] = "TSAT_ASSIGNED"
                      THEN Append(out, hoppie_telex(f.cs, "tsat", f.dep, curr[2],
                                                    prev, oks[i]))
                      ELSE out, oks)

\* TsatLoop sending the telex on every change of the tuple
RECURSIVE TsatLoop_NotifyAll(_, _, _, _, _, _)
TsatLoop_NotifyAll(flights, i, tables, lst, out, oks) ==
    IF i > Len(flights) THEN [last |-> lst, telex |-> out]
    ELSE LET f == flights[i]
             key == <<f.cs, f.dep>>
             prev == Get(lst, key, NoTuple)
             curr == tsat_state_for(f.cs, f.dep, tables)
         IN  IF f.dep \notin Range(AIRPORTS) \/ prev = curr
             THEN TsatLoop_NotifyAll(flights, i + 1, tables, lst, out, oks)
             ELSE TsatLoop_NotifyAll(flights, i + 1, tables, Put(lst, key, curr),
                      Append(out, hoppie_telex(f.cs, "tsat", f.dep, curr[2],
                                               prev, oks[i])), oks)

\* TSAT tracking, over flights[i..]
RECURSIVE TsatLoop(_, _, _, _, _, _)
TsatLoop(flights, i, tables, lst, out, oks) ==
    IF i > Len(flights) THEN [last |-> lst, telex |-> out]
    ELSE LET f == flights[i]
             key == <<f.cs, f.dep>>
             prev == Get(lst, key, NoTuple)
             curr == tsat_state_for(f.cs, f.dep, tables)
         IN  IF f.dep \notin Range(AIRPORTS) \/ prev = curr
             THEN TsatLoop(flights, i + 1, tables, lst, out, oks)
             ELSE TsatLoop(flights, i + 1, tables, Put(lst, key, curr),
                      IF curr[1] = "TSAT_ASSIGNED"
                      THEN Append(out, hoppie_telex(f.cs, "tsat", f.dep, curr[2],
                                                    prev, oks[i]))
                      ELSE out, oks)

sent_key(cs, arr) == <<cs, arr, "stand100nm_sent">>

StandResult(flags, lru, changed, out, p) ==
    [sent_flags |-> flags, lru_state |-> lru, changed |-> changed,
     telex |-> out, pred |-> p]

PredOf(r, i, airport) ==
    [raised |-> r.raised, stand |-> r.stand, label |-> r.label, kind |-> r.kind,
     airport |-> airport, i |-> i]

\* ARR STAND @100NM for one flight: the body of the loop
StandBody(f, i, flags, lru, changed, now, ok) ==
    IF \/ f.arr \notin Range(AIRPORTS)
       \/ f.latlon = None
       \/ sent_key(f.cs, f.arr) \in flags
    THEN StandResult(flags, lru, changed, <<>>, NoPred)
    ELSE IF ~(f.dist <= TRIGGER_NM)
    THEN StandResult(flags, lru, changed, <<>>, NoPred)
    ELSE LET r == predict_stand(f.arr, f.cs, f.aircraft_icao, lru, now)
             out == << hoppie_telex(f.cs, "stand", f.arr, <<r.stand, r.label>>,
                                    NoTuple, ok) >>
         IN  IF r.raised # None
             THEN StandResult(flags, lru, changed, <<>>, PredOf(r, i, f.arr))
             ELSE IF ok
             THEN StandResult(flags \cup {sent_key(f.cs, f.arr)}, r.lru, TRUE,
                              out, PredOf(r, i, f.arr))
             ELSE StandResult(flags, r.lru, changed, out, PredOf(r, i, f.arr))

-----------------------------------------------------------------------------
(* Spec: the watcher thread of goc_auto.py, one action per step of its     *)
(* poll cycle, and the restart of the process                              *)

Init ==
    /\ program = "goc_auto"
    /\ pc = "fetch"
    /\ clock = StartClock
    /\ online = <<>>
    /\ cdm_tables = EmptyMap
    /\ cdm_raw = EmptyMap
    /\ changed_state_files = FALSE
    /\ idx = 0
    /\ disk_flags = {}
    /\ disk_lru = EmptyMap
    /\ disk_tmp = EmptyMap
    /\ sent_flags = {}
    /\ lru_state = EmptyMap
    /\ last = EmptyMap
    /\ welcomed = {}
    /\ last_cdm_error = EmptyMap
    /\ telex = <<>>
    /\ pred = NoPred
    /\ restarts = 0
    /\ welcTotal = EmptyMap
    /\ welcProc = EmptyMap
    /\ standAtt = EmptyMap
    /\ standOk = {}
    /\ below = {}
    /\ pubSeen = EmptyMap
    /\ calls = <<>>
    /\ console = NoCommand
    /\ log = NoLog

persisted == <<disk_flags, disk_lru, disk_tmp>>

standGhosts == <<standAtt, standOk, below>>

welcGhosts == <<welcTotal, welcProc>>

\* fetch_vatsim_hpf raises an exception whose text is drawn from Msgs: the
\* [VATSIM] error line is printed and the cycle is skipped
FetchFailWith(Msgs) ==
    /\ pc = "fetch"
    /\ \E msg \in Msgs : log' = [vatsim |-> msg, lines |-> {<<"VATSIM", msg>>}]
    /\ pc' = "sleep"
    /\ telex' = <<>>
    /\ pred' = NoPred
    /\ UNCHANGED <<clock, online, cdm_tables, cdm_raw, changed_state_files, idx, sent_flags,
                   lru_state, persisted, last, welcomed, last_cdm_error, restarts,
                   welcGhosts, standGhosts, pubSeen, program, calls, console>>

\* the same with the one error text of the specifications that do not look
\* at the log
FetchFail == FetchFailWith({"timeout"})

\* Fetch with one try block around the whole CDM prefetch: a failure for one
\* airport leaves every table empty
Fetch_OneTry(Snaps, Cdms) ==
    /\ pc = "fetch"
    /\ \E snap \in Snaps, resp \in Cdms :
        /\ online' = snap
        /\ cdm_raw' = resp
        /\ cdm_tables' = [a \in Range(AIRPORTS) |->
                            IF \A x \in Range(AIRPORTS) : resp[x].ok
                            THEN fetch_cdm_airport(resp[a].rows)
                            ELSE EmptyMap]
        /\ last_cdm_error' = [a \in {x \in Range(AIRPORTS) : ~resp[x].ok} |->
                                resp[a].msg]
    /\ changed_state_files' = FALSE
    /\ idx' = 0
    /\ pc' = "welcome"
    /\ telex' = <<>>
    /\ pred' = NoPred
    /\ UNCHANGED <<clock, sent_flags, lru_state, persisted, last, welcomed,
                   restarts, welcGhosts, standGhosts, pubSeen, program, calls, console>>
    /\ log' = [vatsim |-> None,
               lines |-> {<<a, last_cdm_error'[a]>> : a \in
                            {x \in DOMAIN last_cdm_error' :
                               Get(last_cdm_error, x, None) # last_cdm_error'[x]}}]

\* the VATSIM snapshot and the CDM prefetch of every airport, the answers
\* drawn from Snaps and Cdms
Fetch(Snaps, Cdms) ==
    /\ pc = "fetch"
    /\ \E snap \in Snaps, resp \in Cdms :
        /\ online' = snap
        /\ cdm_raw' = resp
        /\ cdm_tables' = [a \in Range(AIRPORTS) |->
                            IF resp[a].ok THEN fetch_cdm_airport(resp[a].rows)
                            ELSE EmptyMap]
        /\ last_cdm_error' = [a \in {x \in Range(AIRPORTS) : ~resp[x].ok} |->
                                resp[a].msg]
    /\ changed_state_files' = FALSE
    /\ idx' = 0
    /\ pc' = "welcome"
    /\ telex' = <<>>
    /\ pred' = NoPred
    /\ UNCHANGED <<clock, sent_flags, lru_state, persisted, last, welcomed,
                   restarts, welcGhosts, standGhosts, pubSeen, program, calls, console>>
    /\ log' = [vatsim |-> None,
               lines |-> {<<a, last_cdm_error'[a]>> : a \in
                            {x \in DOMAIN last_cdm_error' :
                               Get(last_cdm_error, x, None) # last_cdm_error'[x]}}]

RECURSIVE BumpAll(_, _, _)
BumpAll(m, out, i) ==
    IF i > Len(out) THEN m ELSE BumpAll(Bump(m, out[i].to), out, i + 1)

Welcome ==
    /\ pc = "welcome"
    /\ \E oks \in [1..Len(online) -> BOOLEAN] :
        LET r == WelcomeLoop(online, 1, welcomed, <<>>, oks)
        IN  /\ welcomed' = r.welcomed
            /\ telex' = r.telex
            /\ welcTotal' = BumpAll(welcTotal, r.telex, 1)
            /\ welcProc' = BumpAll(welcProc, r.telex, 1)
    /\ pc' = "tsat"
    /\ pred' = NoPred
    /\ UNCHANGED <<clock, online, cdm_tables, cdm_raw, changed_state_files, idx, sent_flags,
                   lru_state, persisted, last, last_cdm_error, restarts,
                   standGhosts, pubSeen, program, calls, console, log>>

\* the slot of each observed flight whose airport table was fetched this cycle
RECURSIVE SeenSlots(_, _, _)
SeenSlots(seen, flights, i) ==
    IF i > Len(flights) THEN seen
    ELSE LET f == flights[i]
         IN  IF f.dep \in Range(AIRPORTS) /\ f.dep \notin DOMAIN last_cdm_error
             THEN SeenSlots(Put(seen, <<f.cs, f.dep>>,
                                Get(cdm_tables[f.dep], f.cs, None)), flights, i + 1)
             ELSE SeenSlots(seen, flights, i + 1)

Tsat ==
    /\ pc = "tsat"
    /\ \E oks \in [1..Len(online) -> BOOLEAN] :
        LET r == TsatLoop(online, 1, cdm_tables, last, <<>>, oks)
        IN  /\ last' = r.last
            /\ telex' = r.telex
    /\ pubSeen' = SeenSlots(pubSeen, online, 1)
    /\ pc' = "stand"
    /\ idx' = 1
    /\ pred' = NoPred
    /\ UNCHANGED <<clock, online, cdm_tables, cdm_raw, changed_state_files, sent_flags,
                   lru_state, persisted, welcomed, last_cdm_error, restarts,
                   welcGhosts, standGhosts, program, calls, console, log>>

InReach(f) ==
    /\ f.arr \in Range(AIRPORTS)
    /\ f.latlon # None
    /\ f.dist <= TRIGGER_NM

\* one iteration of the stand loop
StandOne ==
    /\ pc = "stand"
    /\ idx <= Len(online)
    /\ \E ok \in BOOLEAN :
        LET f == online[idx]
            key == <<f.cs, f.arr>>
            r == StandBody(f, idx, sent_flags, lru_state, changed_state_files,
                           clock, ok)
        IN  /\ sent_flags' = r.sent_flags
            /\ lru_state' = r.lru_state
            /\ changed_state_files' = r.changed
            /\ telex' = r.telex
            /\ pred' = r.pred
            /\ below' = IF InReach(f) THEN below \cup {key} ELSE below
            /\ standAtt' = IF r.telex # <<>> THEN Bump(standAtt, key) ELSE standAtt
            /\ standOk' = IF r.telex # <<>> /\ r.telex[1].ok
                          THEN standOk \cup {key} ELSE standOk
    /\ idx' = idx + 1
    /\ UNCHANGED <<pc, clock, online, cdm_tables, cdm_raw, persisted, last, welcomed,
                   last_cdm_error, restarts, welcGhosts, pubSeen, program, calls, console, log>>

StandLoopDone == pc = "stand" /\ idx > Len(online)

\* save_json(SENT_FLAGS_PATH, sent_flags)
SaveFlags ==
    /\ StandLoopDone
    /\ changed_state_files
    /\ disk_flags' = sent_flags
    /\ pc' = "save_lru"
    /\ telex' = <<>>
    /\ pred' = NoPred
    /\ UNCHANGED <<clock, online, cdm_tables, cdm_raw, changed_state_files, idx, sent_flags,
                   lru_state, disk_lru, disk_tmp, last, welcomed, last_cdm_error, restarts,
                   welcGhosts, standGhosts, pubSeen, program, calls, console, log>>

\* save_json(LRU_STATE_PATH, lru_state)
SaveLru ==
    /\ pc = "save_lru"
    /\ disk_lru' = lru_state
    /\ pc' = "sleep"
    /\ telex' = <<>>
    /\ pred' = NoPred
    /\ UNCHANGED <<clock, online, cdm_tables, cdm_raw, changed_state_files, idx, sent_flags,
                   lru_state, disk_flags, disk_tmp, last, welcomed, last_cdm_error, restarts,
                   welcGhosts, standGhosts, pubSeen, program, calls, console, log>>

\* time.sleep(POLL_SECONDS); the locals of the cycle are dead from here on
Sleep ==
    /\ pc = "sleep" \/ (StandLoopDone /\ ~changed_state_files)
    /\ Polls + 1 < MaxPolls
    /\ clock' = clock + POLL_SECONDS
    /\ pc' = "fetch"
    /\ online' = <<>>
    /\ cdm_tables' = EmptyMap
    /\ cdm_raw' = EmptyMap
    /\ changed_state_files' = FALSE
    /\ idx' = 0
    /\ telex' = <<>>
    /\ pred' = NoPred
    /\ UNCHANGED <<sent_flags, lru_state, persisted, last, welcomed,
                   last_cdm_error, restarts, welcGhosts, standGhosts, pubSeen,
                   program, calls, console, log>>

\* the process ends at any point (cli_loop returns and the daemon watcher
\* thread dies with it, or the process is killed) and is started again:
\* watcher_loop loads the two documents and starts with empty last,
\* welcomed and last_cdm_error
Restart ==
    /\ restarts < MaxRestarts
    /\ restarts' = restarts + 1
    /\ sent_flags' = disk_flags
    /\ lru_state' = disk_lru
    /\ last' = EmptyMap
    /\ welcomed' = {}
    /\ last_cdm_error' = EmptyMap
    /\ pc' = "fetch"
    /\ online' = <<>>
    /\ cdm_tables' = EmptyMap
    /\ cdm_raw' = EmptyMap
    /\ changed_state_files' = FALSE
    /\ idx' = 0
    /\ telex' = <<>>
    /\ pred' = NoPred
    /\ welcProc' = EmptyMap
    /\ pubSeen' = EmptyMap
    /\ UNCHANGED <<clock, persisted, welcTotal, standGhosts, program, calls, console>>
    /\ log' = NoLog

Next ==
    \/ FetchFail
    \/ Fetch(Snapshots, CdmQuiet)
    \/ Welcome
    \/ Tsat
    \/ StandOne
    \/ SaveFlags
    \/ SaveLru
    \/ Sleep
    \/ Restart

Spec == Init /\ [][Next]_vars

-----------------------------------------------------------------------------
(* SpecTsat: the same watcher, fed every answer of the CDM viewer          *)
(* (a published time, another one, a placeholder, no row, a failed fetch)  *)
(* for one departing flight                                                *)

NextTsat ==
    \/ FetchFail
    \/ Fetch(SnapshotsDep, CdmInputs)
    \/ Welcome
    \/ Tsat
    \/ StandOne
    \/ SaveFlags
    \/ SaveLru
    \/ Sleep
    \/ Restart

SpecTsat == Init /\ [][NextTsat]_vars

-----------------------------------------------------------------------------
(* SpecSave: the same watcher with each save_json taken step by step       *)
(* (open the .tmp file, dump and close, os.replace), the process ending    *)
(* between any two steps                                                   *)

\* the documents save_json is called for, in the order of the calls
Documents == <<"flags", "lru">>

\* the in-memory store that is dumped into the document
StoreOf(doc) == IF doc = "flags" THEN sent_flags ELSE lru_state

\* where the watcher stands after the save of the document
AfterSave(doc) == IF doc = "flags" THEN "open_lru" ELSE "sleep"

\* the step is about to open the .tmp file of the document
AtOpen(doc) ==
    IF doc = "flags" THEN StandLoopDone /\ changed_state_files
    ELSE pc = "open_lru"

saveFrame == <<clock, online, cdm_tables, cdm_raw, changed_state_files, idx,
               sent_flags, lru_state, last, welcomed, last_cdm_error, restarts,
               welcGhosts, standGhosts, pubSeen, program, calls, console, log>>

\* SaveOpen opening the document itself for writing
SaveOpen_InPlace(doc) ==
    /\ AtOpen(doc)
    /\ IF doc = "flags"
       THEN disk_flags' = {} /\ UNCHANGED disk_lru
       ELSE disk_lru' = EmptyMap /\ UNCHANGED disk_flags
    /\ disk_tmp' = disk_tmp
    /\ pc' = "dump_" \o doc
    /\ telex' = <<>>
    /\ pred' = NoPred
    /\ UNCHANGED saveFrame

\* open(tmp, "w"): the .tmp file exists and is empty
SaveOpen(doc) ==
    /\ AtOpen(doc)
    /\ disk_tmp' = Put(disk_tmp, doc, [whole |-> FALSE, data |-> None])
    /\ pc' = "dump_" \o doc
    /\ telex' = <<>>
    /\ pred' = NoPred
    /\ UNCHANGED <<disk_flags, disk_lru, saveFrame>>

\* json.dump and the close of the with block: the .tmp file is complete
SaveDump(doc) ==
    /\ pc = "dump_" \o doc
    /\ disk_tmp' = Put(disk_tmp, doc, [whole |-> TRUE, data |-> StoreOf(doc)])
    /\ pc' = "replace_" \o doc
    /\ UNCHANGED <<telex, pred, disk_flags, disk_lru, saveFrame>>

\* os.replace(tmp, path): the document is the .tmp file, which is gone
SaveReplace(doc) ==
    /\ pc = "replace_" \o doc
    /\ doc \in DOMAIN disk_tmp
    /\ IF doc = "flags"
       THEN disk_flags' = disk_tmp[doc].data /\ UNCHANGED disk_lru
       ELSE disk_lru' = disk_tmp[doc].data /\ UNCHANGED disk_flags
    /\ disk_tmp' = [d \in DOMAIN disk_tmp \ {doc} |-> disk_tmp[d]]
    /\ pc' = AfterSave(doc)
    /\ UNCHANGED <<telex, pred, saveFrame>>

NextSave ==
    \/ FetchFail
    \/ Fetch(Snapshots, CdmQuiet)
    \/ Welcome
    \/ Tsat
    \/ StandOne
    \/ \E doc \in Range(Documents) : SaveOpen(doc)
    \/ \E doc \in Range(Documents) : SaveDump(doc)
    \/ \E doc \in Range(Documents) : SaveReplace(doc)
    \/ Sleep
    \/ Restart

SpecSave == Init /\ [][NextSave]_vars

-----------------------------------------------------------------------------
(* SpecFetch: the same watcher with the two fetches failing with either of *)
(* two error texts                                                         *)

VatsimErrors == {"timeout", "HTTP 500"}

\* the CDM viewer of LEBL fails with either text or answers; the others answer
CdmErrors ==
    {[a \in Range(AIRPORTS) |-> IF a = "LEBL" THEN r ELSE CdmOk(EmptyMap)] :
        r \in {CdmFail("timeout"), CdmFail("HTTP 500"),
               CdmOk([c \in {HPF100} |-> "1230"])}}

NextFetch ==
    \/ FetchFailWith(VatsimErrors)
    \/ Fetch(SnapshotsDep, CdmErrors)
    \/ Welcome
    \/ Tsat
    \/ StandOne
    \/ SaveFlags
    \/ SaveLru
    \/ Sleep
    \/ Restart

SpecFetch == Init /\ [][NextFetch]_vars

-----------------------------------------------------------------------------
(* SpecWelcome: the same watcher with the FIRST ONLINE WELCOME loop taken  *)
(* statement by statement: idx flights of the snapshot are done            *)

welcomeFrame == <<clock, online, cdm_tables, cdm_raw, changed_state_files, sent_flags,
                  lru_state, persisted, last, last_cdm_error, restarts,
                  standGhosts, pubSeen, program, calls, console, log>>

\* the two continue statements: another base, or welcomed already
WelcomeSkip ==
    /\ pc = "welcome"
    /\ idx < Len(online)
    /\ LET f == online[idx + 1]
       IN  f.dep \notin Range(AIRPORTS) \/ f.cs \in welcomed
    /\ idx' = idx + 1
    /\ telex' = <<>>
    /\ UNCHANGED <<pc, pred, welcomed, welcGhosts, welcomeFrame>>

\* welcomed.add(cs)
WelcomeAdd ==
    /\ pc = "welcome"
    /\ idx < Len(online)
    /\ LET f == online[idx + 1]
       IN  /\ f.dep \in Range(AIRPORTS)
           /\ f.cs \notin welcomed
           /\ welcomed' = welcomed \cup {f.cs}
    /\ pc' = "welcome_send"
    /\ telex' = <<>>
    /\ UNCHANGED <<idx, pred, welcGhosts, welcomeFrame>>

\* the try block around hoppie_telex(cs, msg)
WelcomeSend ==
    /\ pc = "welcome_send"
    /\ \E ok \in BOOLEAN :
        LET f == online[idx + 1]
        IN  /\ telex' = << hoppie_telex(f.cs, "welcome", f.dep, None, NoTuple, ok) >>
            /\ welcTotal' = Bump(welcTotal, f.cs)
            /\ welcProc' = Bump(welcProc, f.cs)
    /\ idx' = idx + 1
    /\ pc' = "welcome"
    /\ UNCHANGED <<pred, welcomed, welcomeFrame>>

\* the for loop is exhausted
WelcomeDone ==
    /\ pc = "welcome"
    /\ idx >= Len(online)
    /\ pc' = "tsat"
    /\ telex' = <<>>
    /\ UNCHANGED <<idx, pred, welcomed, welcGhosts, welcomeFrame>>

NextWelcome ==
    \/ FetchFail
    \/ Fetch(SnapshotsDep, CdmQuiet)
    \/ WelcomeSkip
    \/ WelcomeAdd
    \/ WelcomeSend
    \/ WelcomeDone
    \/ Tsat
    \/ StandOne
    \/ SaveFlags
    \/ SaveLru
    \/ Sleep
    \/ Restart

SpecWelcome == Init /\ [][NextWelcome]_vars

-----------------------------------------------------------------------------
(* SpecConsole: the watcher thread of SpecSave next to the console thread  *)
(* (cli_loop), the two started by the main block and scheduled freely      *)

\* the lines typed at the prompt, split into words
Commands ==
    {<<"help">>, <<"ping">>, <<"PING", <<"h", "p", "f", "1", "0", "0">>>>,
     <<"telex", HPF200>>, <<"telex", HPF200, "CALL OPS">>, <<"stand", HPF100>>}

\* cmd.lower() on the first word
LowerWord(w) == IF w = "PING" THEN "ping" ELSE w

cli_loop(parts, ok) ==
    LET word == LowerWord(parts[1])
        sent == IF ok THEN "sent" ELSE "failed"
    IN  IF parts = <<"help">> THEN ConsoleRound("help", <<>>, None, None)
        ELSE IF word = "ping" /\ Len(parts) >= 2
        THEN ConsoleRound("ping", upper(strip(parts[2])), "HPF GOC TEST MESSAGE", sent)
        ELSE IF word = "telex" /\ Len(parts) >= 2
        THEN IF Len(parts) < 3
             THEN ConsoleRound("usage", <<>>, None, None)
             ELSE ConsoleRound("telex", strip(upper(parts[2])), parts[3], sent)
        ELSE ConsoleRound("unknown", <<>>, None, None)

\* the watcher has changed its stores in this cycle and has not yet
\* replaced both documents
InReadModifyWrite == changed_state_files /\ pc \notin {"fetch", "sleep"}

cliFrame == <<pc, clock, online, cdm_tables, cdm_raw, changed_state_files, idx,
              lru_state, persisted, last, welcomed, last_cdm_error, telex, pred,
              restarts, welcGhosts, standGhosts, pubSeen, program, calls, log>>

\* cli_loop writing the stand flag of the flight it sends to
CliStep_Marks ==
    \E parts \in Commands, ok \in BOOLEAN :
        LET r == cli_loop(parts, ok)
        IN  /\ console' = [round |-> r, rmw |-> InReadModifyWrite]
            /\ sent_flags' = IF r.outcome = "sent"
                             THEN sent_flags \cup {sent_key(r.to, "LEMD")}
                             ELSE sent_flags
            /\ UNCHANGED cliFrame

\* one round of cli_loop, at any point of the watcher's cycle
CliStep ==
    \E parts \in Commands, ok \in BOOLEAN :
        LET r == cli_loop(parts, ok)
        IN  /\ console' = [round |-> r, rmw |-> InReadModifyWrite]
            /\ UNCHANGED <<sent_flags, cliFrame>>

NextConsole ==
    \/ FetchFail
    \/ Fetch(SnapshotsDep, CdmQuiet)
    \/ Welcome
    \/ Tsat
    \/ StandOne
    \/ \E doc \in Range(Documents) : SaveOpen(doc)
    \/ \E doc \in Range(Documents) : SaveDump(doc)
    \/ \E doc \in Range(Documents) : SaveReplace(doc)
    \/ Sleep
    \/ Restart
    \/ CliStep

SpecConsole == Init /\ [][NextConsole]_vars

-----------------------------------------------------------------------------
(* SpecCdm: the same watcher with flights departing from two airports,     *)
(* the CDM fetch of each failing or answering on its own                   *)

SnapshotsTwo ==
    {<<Flight(HPF100, "LEBL", "LEMD", "set", 100, "B738"),
       Flight(HPF200, "LEMD", "LEBL", "set", 150, "B738")>>,
     <<Flight(HPF200, "LEMD", "LEBL", "set", 150, "B738")>>}

CdmTwo ==
    {[a \in Range(AIRPORTS) |->
        IF a = "LEBL" THEN lebl ELSE IF a = "LEMD" THEN lemd ELSE CdmOk(EmptyMap)] :
     lebl \in {CdmFail("timeout"), CdmOk([c \in {HPF100} |-> "1230"])},
     lemd \in {CdmFail("HTTP 500"), CdmOk([c \in {HPF200} |-> "1230"]),
               CdmOk([c \in {HPF200} |-> "1245"])}}

NextCdm ==
    \/ FetchFail
    \/ Fetch(SnapshotsTwo, CdmTwo)
    \/ Welcome
    \/ Tsat
    \/ StandOne
    \/ SaveFlags
    \/ SaveLru
    \/ Sleep
    \/ Restart

SpecCdm == Init /\ [][NextCdm]_vars

-----------------------------------------------------------------------------
(* Spec100nm: the main loop of goc_stand_100nm.py; one try block spans the *)
(* whole cycle, and send_telex only prints                                 *)

Init100 ==
    /\ program = "goc_stand_100nm"
    /\ pc = "fetch"
    /\ clock = StartClock
    /\ online = <<>>
    /\ cdm_tables = EmptyMap
    /\ cdm_raw = EmptyMap
    /\ changed_state_files = FALSE
    /\ idx = 0
    /\ disk_flags = {}
    /\ disk_lru = EmptyMap
    /\ disk_tmp = EmptyMap
    /\ sent_flags = {}
    /\ lru_state = EmptyMap
    /\ last = EmptyMap
    /\ welcomed = {}
    /\ last_cdm_error = EmptyMap
    /\ telex = <<>>
    /\ pred = NoPred
    /\ restarts = 0
    /\ welcTotal = EmptyMap
    /\ welcProc = EmptyMap
    /\ standAtt = EmptyMap
    /\ standOk = {}
    /\ below = {}
    /\ pubSeen = EmptyMap
    /\ calls = <<>>
    /\ console = NoCommand
    /\ log = NoLog

\* the snapshots of Spec, and the two flights in the other order of the feed
Snapshots100 == Snapshots \cup {<<b, a>> : a \in InfosA, b \in InfosB}

\* the pilots the generator yields: arrival in AIRPORTS, position known
iter_relevant_flights(data) ==
    SelectSeq(data, LAMBDA f : f.arr \in Range(AIRPORTS) /\ f.latlon # None)

\* fetch_vatsim_data() and the start of the for loop
Fetch100 ==
    /\ pc = "fetch"
    /\ \E snap \in Snapshots100 : online' = iter_relevant_flights(snap)
    /\ changed_state_files' = FALSE
    /\ idx' = 1
    /\ pc' = "stand"
    /\ telex' = <<>>
    /\ pred' = NoPred
    /\ UNCHANGED <<clock, cdm_tables, cdm_raw, sent_flags, lru_state, persisted,
                   last, welcomed, last_cdm_error, restarts, welcGhosts,
                   standGhosts, pubSeen, program, calls, console>>
    /\ log' = NoLog

\* the body of the for loop of main for one flight
StandBody_100nm(f, i, flags, lru, changed, now) ==
    IF f.dist <= TRIGGER_NM /\ sent_key(f.cs, f.arr) \notin flags
    THEN LET r == predict_stand_100nm(f.arr, f.cs, f.aircraft_icao, lru, now)
             out == << hoppie_telex(f.cs, "stand", f.arr, <<r.stand, r.label>>,
                                    NoTuple, TRUE) >>
         IN  IF r.raised # None
             THEN StandResult(flags, lru, changed, <<>>, PredOf(r, i, f.arr))
             ELSE StandResult(flags \cup {sent_key(f.cs, f.arr)}, r.lru, TRUE,
                              out, PredOf(r, i, f.arr))
    ELSE StandResult(flags, lru, changed, <<>>, NoPred)

\* one iteration of the for loop; an exception leaves the loop and the try
\* block for the except clause, which prints, and the cycle goes to its sleep
StandOne100 ==
    /\ pc = "stand"
    /\ idx <= Len(online)
    /\ LET f == online[idx]
           key == <<f.cs, f.arr>>
           r == StandBody_100nm(f, idx, sent_flags, lru_state,
                                changed_state_files, clock)
       IN  /\ sent_flags' = r.sent_flags
           /\ lru_state' = r.lru_state
           /\ changed_state_files' = r.changed
           /\ telex' = r.telex
           /\ pred' = r.pred
           /\ below' = IF InReach(f) THEN below \cup {key} ELSE below
           /\ standAtt' = IF r.telex # <<>> THEN Bump(standAtt, key) ELSE standAtt
           /\ standOk' = IF r.telex # <<>> THEN standOk \cup {key} ELSE standOk
           /\ IF r.pred.raised # None
              THEN pc' = "sleep" /\ idx' = idx
              ELSE pc' = pc /\ idx' = idx + 1
    /\ UNCHANGED <<clock, online, cdm_tables, cdm_raw, persisted, last, welcomed,
                   last_cdm_error, restarts, welcGhosts, pubSeen, program, calls, console, log>>

Next100 ==
    \/ FetchFail
    \/ Fetch100
    \/ StandOne100
    \/ SaveFlags
    \/ SaveLru
    \/ Sleep
    \/ Restart

Spec100nm == Init100 /\ [][Next100]_vars

-----------------------------------------------------------------------------
(* Claims on the allocator                                                 *)

NormSeq(cands) == [j \in 1..Len(cands) |-> strip_upper(cands[j])]

StampBefore(c, stand) == Get(c.before, stand, 0)

\* C8: for every non-empty candidate sequence and every LRU state,
\* select_stand_from_pool returns a member of the normalized candidate
\* sequence whose stored timestamp (absent = 0) is minimal among the
\* candidates, and among those of minimal timestamp the one at the earliest
\* position.
C8_SelectMinEarliest ==
    \A i \in DOMAIN calls :
        (calls[i].fn = "select" /\ calls[i].candidates # <<>>) =>
            LET c == calls[i]
                norm == NormSeq(c.candidates)
            IN  \E j \in DOMAIN norm :
                    /\ c.stand = norm[j]
                    /\ \A k \in DOMAIN norm :
                           StampBefore(c, norm[j]) <= StampBefore(c, norm[k])
                    /\ \A k \in 1..(j - 1) :
                           StampBefore(c, norm[k]) > StampBefore(c, norm[j])

\* a call in which two different stands tie at the minimal timestamp, behind
\* a first candidate that was used more recently, and the earlier of the two
\* is returned
C8_Witness ==
    \E i \in DOMAIN calls :
        /\ calls[i].fn = "select"
        /\ LET c == calls[i]
               norm == NormSeq(c.candidates)
           IN  \E j, k \in DOMAIN norm :
                   /\ 1 < j /\ j < k
                   /\ norm[j] # norm[k]
                   /\ c.stand = norm[j]
                   /\ StampBefore(c, norm[j]) = StampBefore(c, norm[k])
                   /\ StampBefore(c, norm[1]) > StampBefore(c, norm[j])

\* C9: two consecutive predict_stand calls for the same airport that both
\* resolve through the same pool rule with at least two distinct candidates
\* return two different stands.
C9_ConsecutivePoolCallsDiffer ==
    (/\ Len(calls) = 2
     /\ calls[1].fn = "predict" /\ calls[2].fn = "predict"
     /\ calls[1].kind = "pool" /\ calls[2].kind = "pool"
     /\ calls[1].airport = calls[2].airport
     /\ calls[1].rule = calls[2].rule
     /\ Cardinality(Range(NormCandidates(calls[1].rule.candidates))) >= 2)
    => calls[1].stand # calls[2].stand

\* the prefix the running program derives from a callsign
ProgramPrefix(cs) ==
    IF program = "goc_auto" THEN callsign_prefix(cs) ELSE callsign_prefix_100nm(cs)

\* C10: with the single rule {priority 10, prefixes [HPF], pool [M1, M2]} and
\* both stands at timestamp 0, predict_stand for HPF100 and then for HPF200
\* returns M1 and then M2, the prefix derived from each callsign being HPF.
C10_EndToEndM1ThenM2 ==
    (/\ Len(calls) = 2
     /\ calls[1].fn = "predict" /\ calls[2].fn = "predict"
     /\ calls[1].airport = "LEMD" /\ calls[2].airport = "LEMD"
     /\ calls[1].callsign = HPF100 /\ calls[2].callsign = HPF200
     /\ StampBefore(calls[1], "M1") = 0 /\ StampBefore(calls[1], "M2") = 0)
    => /\ ProgramPrefix(HPF100) = HPF /\ ProgramPrefix(HPF200) = HPF
       /\ calls[1].stand = "M1" /\ calls[2].stand = "M2"

\* the same, of goc_auto.py alone
EndToEndM1ThenM2_auto == program = "goc_auto" => C10_EndToEndM1ThenM2

\* C16: select_stand_from_pool called with an empty candidate list reports a
\* failure, returns no stand and leaves the LRU state as it was.
C16_EmptyPoolIsError ==
    \A i \in DOMAIN calls :
        (calls[i].fn = "select" /\ calls[i].candidates = <<>>) =>
            /\ calls[i].raised # None
            /\ calls[i].stand = None
            /\ Get(lru_state, calls[i].airport, EmptyMap) = calls[i].before

-----------------------------------------------------------------------------
(* Claims on the rule scan                                                 *)

\* the context the running script builds for a call
CallCtx(c) ==
    [callsign |-> normalize_callsign(c.callsign),
     prefix |-> ProgramPrefix(c.callsign),
     aircraft_icao |-> strip_upper(c.aircraft)]

\* the rule is of type fixed, as the running script reads the type
IsFixed(rule) ==
    IF program = "goc_auto"
    THEN strip_lower(IF Truthy(rule.type) THEN rule.type ELSE "pool") = "fixed"
    ELSE rule.type = "fixed"

BlankStand(rule) == strip_upper(IF Truthy(rule.stand) THEN rule.stand ELSE "") = ""

\* the rule matches the call and has a stand to give: a non-blank fixed
\* stand or a candidate that is not blank
Usable(rule, c) ==
    /\ match_rule(rule, CallCtx(c))
    /\ \/ IsFixed(rule) /\ ~BlankStand(rule)
       \/ NormCandidates(rule.candidates) # <<>>

\* C11: when several rules match and yield a usable resolution, the result
\* of predict_stand comes from the one of highest priority and, among those
\* of equal priority, from the one declared first.
C11_HighestPriorityFirstDeclared ==
    \A i \in DOMAIN calls :
        calls[i].fn = "rules" =>
            LET c == calls[i]
                U == {j \in DOMAIN c.rules : Usable(c.rules[j], c)}
            IN  U # {} =>
                    \E j \in U :
                        /\ c.rule = c.rules[j]
                        /\ c.kind \in {"fixed", "pool"}
                        /\ \A k \in U :
                               \/ c.rules[j].priority > c.rules[k].priority
                               \/ /\ c.rules[j].priority = c.rules[k].priority
                                  /\ j <= k

\* two usable rules of the highest priority, declared after a usable rule of
\* lower priority, and the result comes from the earlier of the two
C11_Witness ==
    \E i \in DOMAIN calls :
        /\ calls[i].fn = "rules"
        /\ LET c == calls[i]
           IN  /\ Len(c.rules) = 3
               /\ \A j \in 1..3 : Usable(c.rules[j], c)
               /\ c.rules[1].priority < c.rules[2].priority
               /\ c.rules[2].priority = c.rules[3].priority
               /\ c.rule = c.rules[2]
               /\ c.stand # None

\* C12: a matching rule of type fixed whose stand is blank produces no
\* assignment itself, neither a fixed nor a pool one: the result of the call
\* never comes from such a rule.
C12_BlankFixedFallsThrough ==
    \A i \in DOMAIN calls :
        calls[i].fn = "rules" =>
            LET c == calls[i]
            IN  \A j \in DOMAIN c.rules :
                    (/\ match_rule(c.rules[j], CallCtx(c))
                     /\ IsFixed(c.rules[j]) /\ BlankStand(c.rules[j]))
                    => (c.kind \in {"fixed", "pool"} => c.rule # c.rules[j])

\* C13: when the rule set exists and no rule matches with a non-blank fixed
\* stand or a non-empty filtered pool, predict_stand returns exactly
\* {stand: TBD, label: APRON}.
C13_FallbackIsTbdApron ==
    \A i \in DOMAIN calls :
        calls[i].fn = "rules" =>
            LET c == calls[i]
            IN  (\A j \in DOMAIN c.rules : ~Usable(c.rules[j], c))
                => /\ c.raised = None
                   /\ c.stand = "TBD" /\ c.label = "APRON"

\* the same, of goc_auto.py alone
FallbackIsTbdApron_auto == program = "goc_auto" => C13_FallbackIsTbdApron

\* the leading alphabetic run of the callsign is a case-insensitive member
\* of the rule's callsign_prefix, or the field is empty
PrefixFieldMatches(rule, callsign) ==
    \/ rule.callsign_prefix = <<>>
    \/ upper(AlphaRun(strip(callsign))) \in {upper(p) : p \in Range(rule.callsign_prefix)}

\* the same for the aircraft type and aircraft_icao
AircraftFieldMatches(rule, aircraft) ==
    \/ rule.aircraft_icao = <<>>
    \/ strip_upper(aircraft) \in {upper_atom(a) : a \in Range(rule.aircraft_icao)}

\* C21: match_rule returns true exactly when the flight's alphabetic
\* callsign prefix and its aircraft type are case-insensitive members of the
\* rule's non-empty predicate fields (an empty field matches every flight),
\* and it changes no state.
C21_MatchIffAllFieldsMatch ==
    \A i \in DOMAIN calls :
        calls[i].fn = "match" =>
            /\ calls[i].result <=>
                   (/\ PrefixFieldMatches(calls[i].rule, calls[i].callsign)
                    /\ AircraftFieldMatches(calls[i].rule, calls[i].aircraft))
            /\ lru_state = calls[i].lru

\* C21 for goc_auto.py alone
MatchIffAllFieldsMatch_auto == program = "goc_auto" => C21_MatchIffAllFieldsMatch

\* the LRU document after the stand of the call has been stamped
Stamped(lru, c) ==
    Put(lru, c.airport, Put(Get(lru, c.airport, EmptyMap), c.stand, c.now))

\* the call was resolved by a rule that is not of type fixed, from its pool
PoolResolution(c) ==
    /\ c.raised = None
    /\ c.kind = "pool"
    /\ ~IsFixed(c.rule)

\* C23: LRUState is changed only by a successful pool resolution, which
\* stamps exactly the returned stand under the given airport; a call that
\* resolves through a rule of type fixed, returns the fallback or raises
\* leaves LRUState as it was.
C23_LruChangedOnlyByPool ==
    [][calls' # calls =>
           LET c == calls'[Len(calls')]
           IN  c.fn \in {"rules", "predict"} =>
                   lru_state' = IF PoolResolution(c) THEN Stamped(lru_state, c)
                                ELSE lru_state]_vars

\* the same, reading "pool resolution" as the branch of predict_stand that
\* calls select_stand_from_pool, whatever the type of the rule
LruChangedOnlyBySelector ==
    [][calls' # calls =>
           LET c == calls'[Len(calls')]
           IN  c.fn \in {"rules", "predict"} =>
                   lru_state' = IF c.raised = None /\ c.kind = "pool"
                                THEN Stamped(lru_state, c)
                                ELSE lru_state]_vars

-----------------------------------------------------------------------------
(* Claims on the watcher                                                   *)

IsTsatStep == pc = "tsat" /\ pc' = "stand"

\* C1: once the proximity flag of a key has been marked, the key is never
\* removed or reset, neither in a later poll of the same process nor by a
\* restart at any point after the mark (the store reloaded from the
\* persisted flag document).
C1_FlagNeverReset == [][\A k \in sent_flags : k \in sent_flags']_vars

\* C2: within one process, a flight never seen at or below the threshold has
\* no stand notification dispatched, and one that was seen at or below it has
\* exactly one, whatever the later polls.
C2_OneShotPerKey ==
    restarts = 0 =>
        \A k \in WatchKeys :
            Get(standAtt, k, 0) = IF k \in below THEN 1 ELSE 0

\* C3: in the TSAT tracking, for every (callsign, departure airport): when
\* the observed tuple equals the recorded one no notification is issued; when
\* the observed tuple is TSAT_ASSIGNED(v2) and the recorded one
\* TSAT_ASSIGNED(v1) with v1 # v2, a TSAT notification with v2 is issued and
\* the recorded tuple becomes TSAT_ASSIGNED(v2).
C3_NotifyOnTupleChange ==
    [][IsTsatStep =>
        \A i \in DOMAIN online :
            LET f == online[i]
                key == <<f.cs, f.dep>>
                prev == Get(last, key, NoTuple)
                curr == IF f.cs \in DOMAIN cdm_tables[f.dep]
                        THEN <<"TSAT_ASSIGNED", cdm_tables[f.dep][f.cs]>>
                        ELSE <<"IN_CDM_BUT_NO_TSAT", None>>
            IN  f.dep \in Range(AIRPORTS) =>
                /\ prev = curr =>
                       \A j \in DOMAIN telex' :
                           ~(telex'[j].kind = "tsat" /\ telex'[j].to = f.cs)
                /\ (/\ prev[1] = "TSAT_ASSIGNED" /\ curr[1] = "TSAT_ASSIGNED"
                    /\ prev[2] # curr[2]) =>
                       /\ \E j \in DOMAIN telex' :
                              /\ telex'[j].kind = "tsat" /\ telex'[j].to = f.cs
                              /\ telex'[j].airport = f.dep
                              /\ telex'[j].value = curr[2]
                       /\ Get(last', key, NoTuple) = curr
      ]_vars

\* a TSAT notification for 1245 was just issued to a flight recorded with 1230
C3_Witness ==
    \E j \in DOMAIN telex :
        /\ telex[j].kind = "tsat"
        /\ telex[j].prev = <<"TSAT_ASSIGNED", "1230">>
        /\ telex[j].value = "1245"
        /\ Get(last, <<telex[j].to, telex[j].airport>>, NoTuple)
               = <<"TSAT_ASSIGNED", "1245">>

\* C4: a TSAT notification is not re-fired by jitter: it is dispatched for a
\* flight only when the published time differs from the one last read for
\* the flight from a fetched table, so neither a failed fetch followed by a
\* fetch with the time unchanged nor the flight's absence from the snapshot
\* brings a new one.
C4_NoRefireOnJitter ==
    [][\A j \in DOMAIN telex' :
          telex'[j].kind = "tsat" =>
              Get(pubSeen, <<telex'[j].to, telex'[j].airport>>, None)
                  # telex'[j].value
      ]_vars

\* C5: over all polls and restarts, at most one welcome is dispatched per
\* callsign.
C5_OneWelcomeEver == \A cs \in WatchCallsigns : Get(welcTotal, cs, 0) <= 1

\* C5 as amended: each process dispatches at most one welcome per callsign
\* (welcomed is kept in memory only, so a restarted process welcomes the
\* callsign once more).
C5_OneWelcomePerProcess == \A cs \in WatchCallsigns : Get(welcProc, cs, 0) <= 1

\* the restarted process has welcomed the callsign a second time, and a
\* later poll of it, with the flight still online, welcomes nobody
C5_Witness ==
    /\ pc = "tsat" /\ telex = <<>>
    /\ restarts = 1
    /\ \E i \in DOMAIN online :
           /\ online[i].dep \in Range(AIRPORTS)
           /\ Get(welcProc, online[i].cs, 0) = 1
           /\ Get(welcTotal, online[i].cs, 0) = 2

\* C6: when the send of a triggered notification fails, its flag is still
\* marked (welcome: the callsign is in welcomed; stand: the key is in
\* sent_flags), so the key is not attempted again.
C6_FailedSendStillMarks ==
    [][\A j \in DOMAIN telex' :
          ~telex'[j].ok =>
              /\ telex'[j].kind = "welcome" => telex'[j].to \in welcomed'
              /\ telex'[j].kind = "stand" =>
                     sent_key(telex'[j].to, telex'[j].airport) \in sent_flags'
      ]_vars

\* C7: with no rule set for the arrival airport, predict_stand returns the
\* sentinel {TBD, APRON} instead of raising, and the loop goes on to the
\* remaining flights.
C7_MissingRulesGiveSentinel ==
    (pred.kind # "none" /\ ~GATE_FILES(pred.airport).exists) =>
        /\ pred.raised = None
        /\ pred.stand = "TBD" /\ pred.label = "APRON"
        /\ pc = "stand" /\ idx = pred.i + 1

\* C7 as amended: with no rule set for the arrival airport, predict_stand
\* raises FileNotFoundError; the watcher catches it, sends no stand
\* notification and marks no flag for that flight, and the loop goes on to
\* the remaining flights of the cycle.
C7_MissingRulesRaiseLoopGoesOn ==
    (pred.kind # "none" /\ ~GATE_FILES(pred.airport).exists) =>
        /\ pred.raised = "FileNotFoundError"
        /\ telex = <<>>
        /\ sent_key(online[pred.i].cs, pred.airport) \notin sent_flags
        /\ pc = "stand" /\ idx = pred.i + 1

\* predict_stand has just raised for the first flight of a cycle and a
\* second flight is still to be evaluated
C7_Witness ==
    /\ pred.raised = "FileNotFoundError"
    /\ ~GATE_FILES(pred.airport).exists
    /\ pc = "stand" /\ idx = 2 /\ Len(online) = 2

\* the cycle has reached its time.sleep
CycleEnd == pc = "sleep" \/ (StandLoopDone /\ ~changed_state_files)

\* C17: an error while evaluating one flight is confined to that flight: the
\* cycle still evaluates every other flight (when the cycle reaches its
\* sleep the loop has passed every flight of the snapshot, or stands at the
\* last one, whose evaluation raised) and the flags marked in the cycle are
\* in the persisted flag document by then.
C17_ErrorConfinedToFlight ==
    CycleEnd =>
        /\ \A i \in DOMAIN online :
               i < idx \/ (i = idx /\ pred.raised # None /\ pred.i = i)
        /\ \A k \in sent_flags : k \in disk_flags

\* C18: a failed slot-table fetch touches its own airport only. In every
\* cycle, whatever the other fetches did: the table of an airport whose
\* fetch succeeded is the one just fetched, the flights of that airport are
\* recorded with the state that table gives them, every flight online from
\* an in-scope airport has been welcomed, and when the stand loop is over
\* every flight in reach of an airport with a rule set has had its stand
\* telex attempted or is flagged.
C18_FetchFailureIsolated ==
    /\ pc \in {"welcome", "tsat", "stand"} =>
        \A a \in Range(AIRPORTS) :
            cdm_tables[a] = IF cdm_raw[a].ok THEN fetch_cdm_airport(cdm_raw[a].rows)
                            ELSE EmptyMap
    /\ pc = "stand" =>
        \A i \in DOMAIN online :
            online[i].dep \in Range(AIRPORTS) =>
                LET f == online[i]
                    fresh == fetch_cdm_airport(cdm_raw[f.dep].rows)
                IN  /\ f.cs \in welcomed
                    /\ cdm_raw[f.dep].ok =>
                           Get(last, <<f.cs, f.dep>>, NoTuple)
                               = IF f.cs \in DOMAIN fresh
                                 THEN <<"TSAT_ASSIGNED", fresh[f.cs]>>
                                 ELSE <<"IN_CDM_BUT_NO_TSAT", None>>
    /\ StandLoopDone =>
        \A i \in DOMAIN online :
            (InReach(online[i]) /\ GATE_FILES(online[i].arr).exists) =>
                \/ sent_key(online[i].cs, online[i].arr) \in sent_flags
                \/ Get(standAtt, <<online[i].cs, online[i].arr>>, 0) >= 1

\* the LEBL fetch failed in this cycle, and the cycle has sent HPF200 the
\* TSAT of the LEMD table just fetched, welcomed HPF100 of LEBL and sent it
\* its stand
C18_Witness ==
    /\ StandLoopDone
    /\ "LEBL" \in DOMAIN last_cdm_error
    /\ cdm_raw["LEMD"].ok
    /\ Get(last, <<HPF200, "LEMD">>, NoTuple)
           = <<"TSAT_ASSIGNED", cdm_raw["LEMD"].rows[HPF200]>>
    /\ Get(pubSeen, <<HPF200, "LEMD">>, None) = cdm_raw["LEMD"].rows[HPF200]
    /\ Len(online) = 2
    /\ HPF100 \in welcomed
    /\ sent_key(HPF100, "LEMD") \in sent_flags
    /\ restarts = 0 /\ Polls = 0

\* C19: each persisted document is replaced atomically: every step leaves
\* a document as it was or makes it the complete store being saved (the
\* complete .tmp file), a document never holds a part of a write, and a
\* restart at any point loads the two documents as they are.
C19_AtomicReplace ==
    [][/\ \/ disk_flags' = disk_flags
          \/ /\ disk_flags' = sent_flags
             /\ "flags" \in DOMAIN disk_tmp /\ disk_tmp["flags"].whole
       /\ \/ disk_lru' = disk_lru
          \/ /\ disk_lru' = lru_state
             /\ "lru" \in DOMAIN disk_tmp /\ disk_tmp["lru"].whole
       /\ restarts' # restarts =>
              /\ sent_flags' = disk_flags /\ lru_state' = disk_lru
              /\ UNCHANGED <<disk_flags, disk_lru>>
      ]_vars

\* the process ended while the .tmp file of the flag document was being
\* written, with a flag document saved by an earlier cycle: the restarted
\* process holds that earlier document, whole
C19_Witness ==
    /\ restarts = 1 /\ pc = "fetch"
    /\ "flags" \in DOMAIN disk_tmp /\ ~disk_tmp["flags"].whole
    /\ disk_flags # {}
    /\ sent_flags = disk_flags
    /\ \E k \in WatchKeys : k \in standOk /\ sent_key(k[1], k[2]) \notin disk_flags

\* C20 as stated: the console is serialized with the watcher's
\* read-modify-write of the stores and of the state files, so no console
\* command runs between the watcher's change of a store and the end of the
\* write of the two documents.
C20_ConsoleSerialized == ~console.rmw

\* C20: the flag store, LRUState and the state files are changed by the
\* watcher only: a round of the console thread, which can send a TELEX at
\* any point of the watcher's cycle, leaves the stores, the documents, their
\* .tmp files and the watcher's position as they are.
C20_StoresOnlyByWatcher ==
    [][console' # console =>
           UNCHANGED <<sent_flags, lru_state, disk_flags, disk_lru, disk_tmp,
                       changed_state_files, pc, idx>>]_vars

\* the console sent a TELEX while the watcher was between marking a flag
\* and replacing the documents, and the save has ended with the marked
\* flag in the flag document
C20_Witness ==
    /\ console.rmw /\ console.round.outcome = "sent"
    /\ pc = "sleep"
    /\ sent_flags # {} /\ disk_flags = sent_flags
    /\ disk_lru = lru_state

\* C22: a one-shot key is marked fired only after its message has been
\* dispatched: every callsign in welcomed has had its welcome telex
\* dispatched by this process, and every marked stand flag has had its stand
\* telex dispatched.
C22_MarkedOnlyAfterDispatch ==
    /\ \A cs \in welcomed : Get(welcProc, cs, 0) >= 1
    /\ \A k \in WatchKeys :
           sent_key(k[1], k[2]) \in sent_flags => Get(standAtt, k, 0) >= 1

\* C22 for the proximity trigger alone
StandMarkedOnlyAfterDispatch ==
    \A k \in WatchKeys : sent_key(k[1], k[2]) \in sent_flags => k \in standOk

\* the TSAT notifications of a step to one callsign
TsatTelexTo(out, cs) == {j \in DOMAIN out : out[j].kind = "tsat" /\ out[j].to = cs}

\* the flights of the snapshot that the fetched table of their departure
\* airport lists with a time
TimeAssignedNow ==
    {i \in DOMAIN online :
        /\ online[i].dep \in Range(AIRPORTS)
        /\ cdm_raw[online[i].dep].ok
        /\ online[i].cs \in DOMAIN cdm_raw[online[i].dep].rows
        /\ cdm_raw[online[i].dep].rows[online[i].cs] \in {"1230", "1245"}}

\* C24: the slot-transition log is not persisted: a restart empties it, the
\* first poll of a process that observes a flight with a time assigned
\* dispatches exactly one TSAT notification for it, and a later poll that
\* observes the time last observed for the flight dispatches none.
C24_ReannouncedOnceAfterRestart ==
    [][/\ restarts' # restarts => last' = EmptyMap
       /\ IsTsatStep =>
            \A i \in TimeAssignedNow :
                LET f == online[i]
                    key == <<f.cs, f.dep>>
                    v == cdm_raw[f.dep].rows[f.cs]
                IN  /\ key \notin DOMAIN pubSeen =>
                        /\ Cardinality(TsatTelexTo(telex', f.cs)) = 1
                        /\ \A j \in TsatTelexTo(telex', f.cs) : telex'[j].value = v
                    /\ (key \in DOMAIN pubSeen /\ pubSeen[key] = v) =>
                        TsatTelexTo(telex', f.cs) = {}
      ]_vars

\* the same, with "the time last observed" read as the tuple recorded in
\* last, which a failed fetch overwrites
ReannouncedOncePerRecord ==
    [][/\ restarts' # restarts => last' = EmptyMap
       /\ IsTsatStep =>
            \A i \in TimeAssignedNow :
                LET f == online[i]
                    key == <<f.cs, f.dep>>
                    v == cdm_raw[f.dep].rows[f.cs]
                IN  /\ key \notin DOMAIN last =>
                        /\ Cardinality(TsatTelexTo(telex', f.cs)) = 1
                        /\ \A j \in TsatTelexTo(telex', f.cs) : telex'[j].value = v
                    /\ Get(last, key, NoTuple) = <<"TSAT_ASSIGNED", v>> =>
                        TsatTelexTo(telex', f.cs) = {}
      ]_vars

\* the step is the fetch of a poll cycle, failed or not
IsFetchStep == pc = "fetch" /\ pc' \in {"sleep", "welcome"}

\* the slot table of the airport failed with the same text as the last time
\* it was fetched by this process
SameCdmError(a) ==
    /\ log'.vatsim = None
    /\ a \in DOMAIN last_cdm_error /\ a \in DOMAIN last_cdm_error'
    /\ last_cdm_error'[a] = last_cdm_error[a]

\* C25: when a fetch (of the live flights, or of the slot table of an
\* airport) fails with the error text of its previous failure, no fetch of
\* it having succeeded in between, the error is not logged again.
C25_RepeatedErrorLoggedOnce ==
    [][IsFetchStep =>
        /\ (log.vatsim # None /\ log'.vatsim = log.vatsim) =>
               <<"VATSIM", log.vatsim>> \notin log'.lines
        /\ \A a \in Range(AIRPORTS) :
               SameCdmError(a) => <<a, last_cdm_error[a]>> \notin log'.lines
      ]_vars

\* C25 for the slot tables alone, with the converse: a failure with another
\* text, or the first after a fetch that succeeded, is logged
CdmErrorLoggedOnce ==
    [][IsFetchStep =>
        \A a \in Range(AIRPORTS) :
            /\ SameCdmError(a) => <<a, last_cdm_error[a]>> \notin log'.lines
            /\ (/\ log'.vatsim = None
                /\ a \in DOMAIN last_cdm_error' /\ ~SameCdmError(a))
               => <<a, last_cdm_error'[a]>> \in log'.lines
      ]_vars

\* C26: at the end of every poll cycle that reaches the sleep, the persisted
\* flag document and the persisted LRU document equal the in-memory
\* sent-flag store and LRUState.
C26_PersistedAtCycleEnd ==
    CycleEnd => (disk_flags = sent_flags /\ disk_lru = lru_state)

\* C26 for the flag document of goc_auto.py alone
FlagsPersistedAtCycleEnd ==
    (program = "goc_auto" /\ CycleEnd) => disk_flags = sent_flags

\* the stands of the airport whose stamp differs between two LRU documents
StampsChanged(before, after, a) ==
    {s \in DOMAIN Get(after, a, EmptyMap) :
        Get(Get(before, a, EmptyMap), s, 0) # after[a][s]}

\* C27: a stand's last-assigned timestamp advances only when a stand
\* notification naming that stand was dispatched successfully: every step
\* that changes a stamp of an airport has sent, with success, a stand telex
\* for that airport naming that stand.
C27_StampOnlyOnDelivery ==
    [][restarts' = restarts =>
        \A a \in Range(AIRPORTS) :
            \A s \in StampsChanged(lru_state, lru_state', a) :
                \E j \in DOMAIN telex' :
                    /\ telex'[j].kind = "stand" /\ telex'[j].airport = a
                    /\ telex'[j].value[1] = s
                    /\ telex'[j].ok
      ]_vars

\* the same with the telex dispatched, delivered or not
StampOnlyOnDispatch ==
    [][restarts' = restarts =>
        \A a \in Range(AIRPORTS) :
            \A s \in StampsChanged(lru_state, lru_state', a) :
                \E j \in DOMAIN telex' :
                    /\ telex'[j].kind = "stand" /\ telex'[j].airport = a
                    /\ telex'[j].value[1] = s
      ]_vars

\* the cells some script of the repository reads as "no time published"
\* (goc_auto.py's list and the ---- of goc_watch.py and goc_merge.py)
RecognizedPlaceholders == Placeholders \cup {"----"}

\* C14: the slot state recorded for an observed flight whose airport table
\* was fetched is NoRecord (NOT_IN_CDM) when the callsign is absent from the
\* table, RecordNoTime (IN_CDM_BUT_NO_TSAT) when it is listed with no time or
\* a recognized placeholder, and TimeAssigned(value) only when it is listed
\* with a concrete time; no TSAT notification carries a placeholder.
C14_ThreeSlotKinds ==
    /\ pc = "stand" =>
        \A i \in DOMAIN online :
            online[i].dep \in Range(AIRPORTS) =>
                LET f == online[i]
                    resp == cdm_raw[f.dep]
                    st == Get(last, <<f.cs, f.dep>>, NoTuple)
                IN  resp.ok =>
                        IF f.cs \notin DOMAIN resp.rows
                        THEN st = <<"NOT_IN_CDM", None>>
                        ELSE IF resp.rows[f.cs] \in RecognizedPlaceholders
                        THEN st = <<"IN_CDM_BUT_NO_TSAT", None>>
                        ELSE st = <<"TSAT_ASSIGNED", resp.rows[f.cs]>>
    /\ \A j \in DOMAIN telex :
           telex[j].kind = "tsat" => telex[j].value \notin RecognizedPlaceholders

\* C15: a TSAT notification is dispatched only by the TSAT tracking, only to
\* a flight that the fetched table of its departure airport lists (never on
\* observing NoRecord, first or after another state), and only when the
\* recorded tuple changes; a flight that is no longer listed has its record
\* updated without a notification.
C15_NoRecordNeverNotifies ==
    [][/\ IsTsatStep =>
            /\ \A j \in DOMAIN telex' :
                   /\ telex'[j].kind = "tsat"
                   /\ cdm_raw[telex'[j].airport].ok
                   /\ telex'[j].to \in DOMAIN cdm_raw[telex'[j].airport].rows
                   /\ Get(last', <<telex'[j].to, telex'[j].airport>>, NoTuple)
                          # Get(last, <<telex'[j].to, telex'[j].airport>>, NoTuple)
            /\ \A i \in DOMAIN online :
                   (/\ online[i].dep \in Range(AIRPORTS)
                    /\ online[i].cs \notin DOMAIN cdm_tables[online[i].dep])
                   => Get(last', <<online[i].cs, online[i].dep>>, NoTuple)
                          = <<"IN_CDM_BUT_NO_TSAT", None>>
       /\ ~IsTsatStep => \A j \in DOMAIN telex' : telex'[j].kind # "tsat"
      ]_vars

\* in a later poll the LEBL table is fetched and does not list the flight
\* that is online from LEBL: its record is IN_CDM_BUT_NO_TSAT and the TSAT
\* tracking has sent nothing
C15_Witness ==
    /\ pc = "stand" /\ idx = 1 /\ telex = <<>>
    /\ Polls >= 1
    /\ \E i \in DOMAIN online :
           LET f == online[i]
           IN  /\ f.dep = "LEBL"
               /\ cdm_raw["LEBL"].ok
               /\ f.cs \notin DOMAIN cdm_raw["LEBL"].rows
               /\ Get(last, <<f.cs, "LEBL">>, NoTuple) = <<"IN_CDM_BUT_NO_TSAT", None>>

====
